---- MODULE Spec2Model ----
(***************************************************************************)
(* Graph_Generator: the validation-and-generation pipeline of              *)
(* src/graph_generator.py (GraphValidator.validate, GraphGenerator.generate *)
(* and its nine transforms) behind the generate_graph route of src/app.py, *)
(* over a pandas DataFrame built once at start-up.                         *)
(***************************************************************************)
EXTENDS Integers, Sequences, FiniteSets, TLC

VARIABLES df, pc, req, validation, fig, result, response

vars == <<df, pc, req, validation, fig, result, response>>

(***************************************************************************)
(* Bounds of the model.                                                    *)
(***************************************************************************)
\* main pipeline: row counts 0..MaxRows (plus the two around the bar threshold)
MaxRows == 10
\* aggregation datasets: up to MaxGroups distinct categories
MaxGroups == 21
\* candlestick datasets: 0..CandleMaxRows rows
CandleMaxRows == 102

(***************************************************************************)
(* Program constants.                                                      *)
(***************************************************************************)
LineMinRows == 3
BarWarnCategories == 50
ScatterWarnRows == 5
PieWarnCategories == 8
PieMinCategories == 2
HistogramWarnRows == 10
BarTopN == 20
PieTopN == 8
CandleTailRows == 100

\* Python's None, an absent JSON field
None == "<None>"

\* placeholder of a variable that holds no value yet
Absent == [absent |-> TRUE]

Min(a, b) == IF a <= b THEN a ELSE b

(***************************************************************************)
(* The DataFrame: its columns, the dtype of each and its rows in order.    *)
(***************************************************************************)
AllColumns == {"Date", "Open", "High", "Low", "Close", "Sector"}

Sectors == <<"Technology", "Finance", "Healthcare", "Energy">>

dtypeOf(c) ==
    CASE c = "Date" -> "datetime64[ns]"
      [] c = "Sector" -> "object"
      [] c = "cat" -> "int64"
      [] c = "val" -> "int64"
      [] OTHER -> "float64"

\* the value of column c in the i-th generated row
generate_financial_data_value(c, i) ==
    CASE c = "Date" -> i
      [] c = "Open" -> 100 + i
      [] c = "High" -> 110 + i
      [] c = "Low" -> 90 + i
      [] c = "Close" -> 100 + 2 * i
      [] c = "Sector" -> Sectors[((i - 1) % Len(Sectors)) + 1]

\* a frame of n generated rows over the columns cols
DataFrame(cols, n) ==
    [columns |-> cols,
     dtype |-> [c \in cols |-> dtypeOf(c)],
     rows |-> [i \in 1..n |-> [c \in cols |-> generate_financial_data_value(c, i)]]]

len(d) == Len(d.rows)

HasColumn(d, c) == c \in d.columns

\* df[c]: the series of column c (KeyError when c is no column: see KeyError)
Series(d, c) ==
    [name |-> c, dtype |-> d.dtype[c], values |-> [i \in 1..len(d) |-> d.rows[i][c]]]

nunique(s) == Cardinality({s.values[i] : i \in 1..Len(s.values)})

is_numeric(s) == s.dtype \in {"int64", "float64"}

\* str(KeyError(c))
KeyError(c) == IF c = None THEN "None" ELSE "'" \o c \o "'"

\* tail(n) of a sequence: its last min(n, len) elements in order
tail(s, n) == SubSeq(s, Len(s) - Min(n, Len(s)) + 1, Len(s))

\* head(n) of a sequence: its first min(n, len) elements in order
head(s, n) == SubSeq(s, 1, Min(n, Len(s)))

(***************************************************************************)
(* GraphValidator.validate                                                 *)
(***************************************************************************)
GraphTypes ==
    {"line", "bar", "scatter", "pie", "histogram", "box", "candlestick", "heatmap", "area"}

CandlestickRequired == <<"Date", "Open", "High", "Low", "Close">>

\* ', '.join(names)
RECURSIVE join(_)
join(names) ==
    IF Len(names) = 0 THEN ""
    ELSE IF Len(names) = 1 THEN names[1]
    ELSE names[1] \o ", " \o join(Tail(names))

\* the columns validate subscripts df with, in the order it does
validate_reads(graph_type, x_col, y_col) ==
    CASE graph_type = "line" -> <<y_col>>
      [] graph_type = "bar" -> <<y_col, x_col>>
      [] graph_type = "scatter" -> <<x_col, y_col>>
      [] graph_type = "pie" -> <<y_col, x_col>>
      [] graph_type = "histogram" -> <<x_col>>
      [] graph_type = "box" -> <<y_col>>
      [] graph_type = "heatmap" -> <<y_col>>
      [] OTHER -> <<>>

\* the KeyErrors validate's subscripts raise, first one first
validate_raises(d, graph_type, x_col, y_col) ==
    SelectSeq(validate_reads(graph_type, x_col, y_col), LAMBDA c : ~HasColumn(d, c))

\* [entry] when cond, nothing otherwise: one `if cond: list.append(entry)`
Append_if(cond, entry) == IF cond THEN <<entry>> ELSE <<>>

validate_errors(d, graph_type, x_col, y_col) ==
    CASE graph_type = "line" ->
           Append_if(~is_numeric(Series(d, y_col)),
                     "Y-axis '" \o y_col \o "' must be numeric for line charts")
           \o Append_if(len(d) < LineMinRows, "Line chart needs at least 3 data points")
      [] graph_type = "bar" ->
           Append_if(~is_numeric(Series(d, y_col)), "Y-axis '" \o y_col \o "' must be numeric")
      [] graph_type = "scatter" ->
           Append_if(~is_numeric(Series(d, x_col)),
                     "X-axis '" \o x_col \o "' must be numeric for scatter plots")
           \o Append_if(~is_numeric(Series(d, y_col)),
                        "Y-axis '" \o y_col \o "' must be numeric for scatter plots")
      [] graph_type = "pie" ->
           Append_if(~is_numeric(Series(d, y_col)),
                     "Values column '" \o y_col \o "' must be numeric")
           \o Append_if(nunique(Series(d, x_col)) < PieMinCategories,
                        "Pie chart needs at least 2 categories")
      [] graph_type = "histogram" ->
           Append_if(~is_numeric(Series(d, x_col)),
                     "Column '" \o x_col \o "' must be numeric for histogram")
      [] graph_type = "box" ->
           Append_if(~is_numeric(Series(d, y_col)),
                     "Column '" \o y_col \o "' must be numeric for box plot")
      [] graph_type = "candlestick" ->
           LET missing == SelectSeq(CandlestickRequired, LAMBDA c : c \notin d.columns)
           IN  Append_if(missing # <<>>, "Missing required columns: " \o join(missing))
      [] graph_type = "heatmap" ->
           Append_if(~is_numeric(Series(d, y_col)), "Value column must be numeric")
      [] OTHER -> <<>>

validate_warnings(d, graph_type, x_col, y_col) ==
    CASE graph_type = "bar" ->
           Append_if(nunique(Series(d, x_col)) > BarWarnCategories,
                     "Too many categories (" \o ToString(nunique(Series(d, x_col)))
                        \o "). Consider filtering.")
      [] graph_type = "scatter" ->
           Append_if(len(d) < ScatterWarnRows, "Scatter plots work best with at least 5 points")
      [] graph_type = "pie" ->
           Append_if(nunique(Series(d, x_col)) > PieWarnCategories,
                     "Too many categories (" \o ToString(nunique(Series(d, x_col)))
                        \o "). Pie charts work best with <=8.")
      [] graph_type = "histogram" ->
           Append_if(len(d) < HistogramWarnRows,
                     "Histograms work best with at least 10 data points")
      [] OTHER -> <<>>

\* validate with warnings counted against the verdict
validate_warnings_block(d, graph_type, x_col, y_col, group_col) ==
    LET raises == validate_raises(d, graph_type, x_col, y_col)
    IN  IF raises # <<>>
        THEN [raised |-> KeyError(raises[1])]
        ELSE LET errors == validate_errors(d, graph_type, x_col, y_col)
                 warnings == validate_warnings(d, graph_type, x_col, y_col)
             IN  [valid |-> Len(errors) = 0 /\ Len(warnings) = 0, errors |-> errors,
                  warnings |-> warnings]

\* validate that stops at the first violated check
validate_first_error_only(d, graph_type, x_col, y_col, group_col) ==
    LET raises == validate_raises(d, graph_type, x_col, y_col)
    IN  IF raises # <<>>
        THEN [raised |-> KeyError(raises[1])]
        ELSE LET errors == head(validate_errors(d, graph_type, x_col, y_col), 1)
                 warnings == validate_warnings(d, graph_type, x_col, y_col)
             IN  [valid |-> Len(errors) = 0, errors |-> errors, warnings |-> warnings]

\* the outcome of validate: a raised KeyError, or the {valid, errors, warnings} dict
validate(d, graph_type, x_col, y_col, group_col) ==
    LET raises == validate_raises(d, graph_type, x_col, y_col)
    IN  IF raises # <<>>
        THEN [raised |-> KeyError(raises[1])]
        ELSE LET errors == validate_errors(d, graph_type, x_col, y_col)
                 warnings == validate_warnings(d, graph_type, x_col, y_col)
             IN  [valid |-> Len(errors) = 0, errors |-> errors, warnings |-> warnings]

(***************************************************************************)
(* The transforms of GraphGenerator.  Each yields the set of outcomes the  *)
(* call can have: a figure, or [raised |-> str(e)] for a raised exception. *)
(***************************************************************************)
IsRaised(o) == "raised" \in DOMAIN o

ColumnValues(d, c) == Series(d, c).values

\* the first missing column among cs, as a raised KeyError
missing_column(d, cs) ==
    LET miss == SelectSeq(cs, LAMBDA c : ~HasColumn(d, c))
    IN  IF miss = <<>> THEN {} ELSE {[raised |-> KeyError(miss[1])]}

\* the distinct values of the sequence s in the order of their first occurrence
unique(s) ==
    LET firsts == SelectSeq([i \in 1..Len(s) |-> i],
                            LAMBDA i : \A j \in 1..(i - 1) : s[j] # s[i])
    IN  [t \in 1..Len(firsts) |-> s[firsts[t]]]

RECURSIVE SumSeq(_)
SumSeq(s) == IF s = <<>> THEN 0 ELSE s[1] + SumSeq(Tail(s))

\* df.groupby(x_col)[y_col].sum(): the summed y_col of each distinct x_col value
groupby_sum(d, x_col, y_col) ==
    LET keys == {d.rows[i][x_col] : i \in 1..len(d)}
    IN  [k \in keys |->
           SumSeq([j \in 1..Cardinality({i \in 1..len(d) : d.rows[i][x_col] = k}) |->
                     LET idx == CHOOSE i \in 1..len(d) :
                                  /\ d.rows[i][x_col] = k
                                  /\ Cardinality({h \in 1..i : d.rows[h][x_col] = k}) = j
                     IN  d.rows[idx][y_col]])]

\* sort_values with ascending left at its default
RECURSIVE sort_values_ascending(_)
sort_values_ascending(agg) ==
    IF DOMAIN agg = {} THEN {<<>>}
    ELSE LET low == {k \in DOMAIN agg : \A h \in DOMAIN agg : agg[h] >= agg[k]}
         IN  UNION {{<<[key |-> k, sum |-> agg[k]]>> \o rest :
                       rest \in sort_values_ascending([h \in DOMAIN agg \ {k} |-> agg[h]])} :
                    k \in low}

\* sort_values(ascending=False) with pandas' default kind='quicksort', which is
\* not stable: every arrangement of the groups in non-increasing order of sum
RECURSIVE sort_values_descending(_)
sort_values_descending(agg) ==
    IF DOMAIN agg = {} THEN {<<>>}
    ELSE LET top == {k \in DOMAIN agg : \A h \in DOMAIN agg : agg[h] <= agg[k]}
         IN  UNION {{<<[key |-> k, sum |-> agg[k]]>> \o rest :
                       rest \in sort_values_descending([h \in DOMAIN agg \ {k} |-> agg[h]])} :
                    k \in top}

\* the aggregate both _bar_chart and _pie_chart draw: the top n groups
top_groups(d, x_col, y_col, n) ==
    {head(sorted, n) : sorted \in sort_values_descending(groupby_sum(d, x_col, y_col))}

_line_chart(d, title, x_col, y_col) ==
    IF missing_column(d, <<x_col, y_col>>) # {} THEN missing_column(d, <<x_col, y_col>>)
    ELSE {[kind |-> "line", title |-> title, mode |-> "lines+markers",
           x |-> ColumnValues(d, x_col), y |-> ColumnValues(d, y_col)]}

_bar_chart(d, title, x_col, y_col) ==
    IF missing_column(d, <<x_col, y_col>>) # {} THEN missing_column(d, <<x_col, y_col>>)
    ELSE IF x_col = y_col
    THEN {[raised |-> "cannot insert " \o y_col \o ", already exists"]}
    ELSE {[kind |-> "bar", title |-> title,
           x |-> [i \in 1..Len(g) |-> g[i].key], y |-> [i \in 1..Len(g) |-> g[i].sum]] :
          g \in top_groups(d, x_col, y_col, BarTopN)}

_scatter_plot(d, title, x_col, y_col, color_col) ==
    LET used == SelectSeq(<<x_col, y_col, color_col>>, LAMBDA c : c # None)
        bad == SelectSeq(used, LAMBDA c : ~HasColumn(d, c))
        point(i) == <<IF x_col = None THEN i - 1 ELSE d.rows[i][x_col],
                      IF y_col = None THEN i - 1 ELSE d.rows[i][y_col]>>
        rowsOf(v) == SelectSeq([i \in 1..len(d) |-> i], LAMBDA i : d.rows[i][color_col] = v)
    IN  IF bad # <<>>
        THEN {[raised |-> "Value is not the name of a column in 'data_frame': " \o bad[1]]}
        ELSE IF color_col = None
        THEN {[kind |-> "scatter", title |-> title,
               traces |-> <<[name |-> "", points |-> [i \in 1..len(d) |-> point(i)]]>>]}
        ELSE LET names == unique(ColumnValues(d, color_col))
             IN  {[kind |-> "scatter", title |-> title,
                   traces |-> [t \in 1..Len(names) |->
                      [name |-> names[t],
                       points |-> [j \in 1..Len(rowsOf(names[t])) |->
                                     point(rowsOf(names[t])[j])]]]]}

_pie_chart(d, title, labels_col, values_col) ==
    IF missing_column(d, <<labels_col, values_col>>) # {}
    THEN missing_column(d, <<labels_col, values_col>>)
    ELSE IF labels_col = values_col
    THEN {[raised |-> "cannot insert " \o values_col \o ", already exists"]}
    ELSE {[kind |-> "pie", title |-> title,
           labels |-> [i \in 1..Len(g) |-> g[i].key],
           values |-> [i \in 1..Len(g) |-> g[i].sum]] :
          g \in top_groups(d, labels_col, values_col, PieTopN)}

_histogram(d, title, col) ==
    IF missing_column(d, <<col>>) # {} THEN missing_column(d, <<col>>)
    ELSE {[kind |-> "histogram", title |-> title, nbinsx |-> 30, x |-> ColumnValues(d, col)]}

_box_plot(d, title, col, group_col) ==
    IF group_col # None /\ group_col # ""
    THEN LET bad == SelectSeq(<<group_col, col>>, LAMBDA c : c # None /\ ~HasColumn(d, c))
         IN  IF bad # <<>>
             THEN {[raised |-> "Value is not the name of a column in 'data_frame': " \o bad[1]]}
             ELSE {[kind |-> "box", title |-> title,
                    x |-> ColumnValues(d, group_col), y |-> ColumnValues(d, col)]}
    ELSE IF missing_column(d, <<col>>) # {} THEN missing_column(d, <<col>>)
    ELSE {[kind |-> "box", title |-> title, x |-> <<>>, y |-> ColumnValues(d, col)]}

\* _candlestick over the first rows instead of the last
_candlestick_head(d, title) ==
    LET df_recent == [d EXCEPT !.rows = head(d.rows, CandleTailRows)]
    IN  IF missing_column(df_recent, CandlestickRequired) # {}
        THEN missing_column(df_recent, CandlestickRequired)
        ELSE {[kind |-> "candlestick", title |-> title,
               x |-> ColumnValues(df_recent, "Date"),
               open |-> ColumnValues(df_recent, "Open"),
               high |-> ColumnValues(df_recent, "High"),
               low |-> ColumnValues(df_recent, "Low"),
               close |-> ColumnValues(df_recent, "Close")]}

_candlestick(d, title) ==
    LET df_recent == [d EXCEPT !.rows = tail(d.rows, CandleTailRows)]
    IN  IF missing_column(df_recent, CandlestickRequired) # {}
        THEN missing_column(df_recent, CandlestickRequired)
        ELSE {[kind |-> "candlestick", title |-> title,
               x |-> ColumnValues(df_recent, "Date"),
               open |-> ColumnValues(df_recent, "Open"),
               high |-> ColumnValues(df_recent, "High"),
               low |-> ColumnValues(df_recent, "Low"),
               close |-> ColumnValues(df_recent, "Close")]}

\* pivot_table(values=value_col, index=y_col, columns=x_col, aggfunc='mean'):
\* each cell holds <<sum, count>> of value_col over the rows of its (index, column)
\* pair, <<0, 0>> for a pair no row has
_heatmap(d, title, x_col, y_col, value_col) ==
    LET keys == SelectSeq(<<y_col, x_col>>, LAMBDA c : c # None)
        index == IF y_col = None THEN {value_col} ELSE {d.rows[i][y_col] : i \in 1..len(d)}
        columns == IF x_col = None THEN {value_col} ELSE {d.rows[i][x_col] : i \in 1..len(d)}
        cellRows(r, c) == {i \in 1..len(d) :
                             /\ y_col # None => d.rows[i][y_col] = r
                             /\ x_col # None => d.rows[i][x_col] = c}
        RECURSIVE total(_)
        total(S) == IF S = {} THEN 0
                    ELSE LET i == CHOOSE i \in S : TRUE
                         IN  d.rows[i][value_col] + total(S \ {i})
        figure == [kind |-> "heatmap", title |-> title, x |-> columns, y |-> index,
                   z |-> [rc \in index \X columns |->
                            <<total(cellRows(rc[1], rc[2])),
                              Cardinality(cellRows(rc[1], rc[2]))>>]]
    IN  IF missing_column(d, <<value_col>> \o keys) # {}
        THEN missing_column(d, <<value_col>> \o keys)
        ELSE IF keys = <<>> THEN {[raised |-> "No group keys passed!"]}
        \* a column used twice as a key, or as key and value: what pandas does
        \* with it is not fixed by this code, it may raise or go through
        ELSE IF x_col = y_col \/ value_col \in {x_col, y_col}
        THEN {[raised |-> "pivot_table: column used twice"], figure}
        ELSE {figure}

_area_chart(d, title, x_col, y_col) ==
    IF missing_column(d, <<x_col, y_col>>) # {} THEN missing_column(d, <<x_col, y_col>>)
    ELSE {[kind |-> "area", title |-> title, mode |-> "lines", fill |-> "tozeroy",
           x |-> ColumnValues(d, x_col), y |-> ColumnValues(d, y_col)]}

(***************************************************************************)
(* GraphGenerator.generate, after a valid verdict: the try block.          *)
(***************************************************************************)
\* dispatch whose last branch takes every remaining type for an area chart
dispatch_else_area(d, graph_type, title, x_col, y_col, group_col) ==
    CASE graph_type = "line" -> _line_chart(d, title, x_col, y_col)
      [] graph_type = "bar" -> _bar_chart(d, title, x_col, y_col)
      [] graph_type = "scatter" -> _scatter_plot(d, title, x_col, y_col, group_col)
      [] graph_type = "pie" -> _pie_chart(d, title, x_col, y_col)
      [] graph_type = "histogram" -> _histogram(d, title, x_col)
      [] graph_type = "box" -> _box_plot(d, title, y_col, group_col)
      [] graph_type = "candlestick" -> _candlestick(d, title)
      [] graph_type = "heatmap" -> _heatmap(d, title, x_col, group_col, y_col)
      [] OTHER -> _area_chart(d, title, x_col, y_col)

\* the transform generate dispatches graph_type to; {} when no branch matches
dispatch(d, graph_type, title, x_col, y_col, group_col) ==
    CASE graph_type = "line" -> _line_chart(d, title, x_col, y_col)
      [] graph_type = "bar" -> _bar_chart(d, title, x_col, y_col)
      [] graph_type = "scatter" -> _scatter_plot(d, title, x_col, y_col, group_col)
      [] graph_type = "pie" -> _pie_chart(d, title, x_col, y_col)
      [] graph_type = "histogram" -> _histogram(d, title, x_col)
      [] graph_type = "box" -> _box_plot(d, title, y_col, group_col)
      [] graph_type = "candlestick" -> _candlestick(d, title)
      [] graph_type = "heatmap" -> _heatmap(d, title, x_col, group_col, y_col)
      [] graph_type = "area" -> _area_chart(d, title, x_col, y_col)
      [] OTHER -> {}

\* the dict generate returns when validation fails
invalid_result(v) == [success |-> FALSE, errors |-> v.errors, warnings |-> v.warnings]

\* the dict generate returns for a graph type no branch matches
unsupported_result(graph_type) ==
    [success |-> FALSE, errors |-> <<"Graph type '" \o graph_type \o "' not supported">>]

\* the dict generate returns from its except clause
except_result(e) == [success |-> FALSE, errors |-> <<"Error generating graph: " \o e>>]

\* a success dict that drops the validator's warnings
success_result_no_warnings(figure, v) ==
    [success |-> TRUE, html |-> figure, warnings |-> <<>>]

\* the dict generate returns for a built figure
success_result(figure, v) == [success |-> TRUE, html |-> figure, warnings |-> v.warnings]

\* what the try block leaves behind: the figure built (if any) and the dict returned
generate_try(d, r, v) ==
    LET outs == dispatch(d, r.graph_type, r.title, r.x_axis, r.y_axis, r.group_by)
    IN  IF outs = {}
        THEN {[fig |-> Absent, result |-> unsupported_result(r.graph_type)]}
        ELSE {IF IsRaised(o)
              THEN [fig |-> Absent, result |-> except_result(o.raised)]
              ELSE [fig |-> o, result |-> success_result(o, v)] : o \in outs}

(***************************************************************************)
(* The requests and the datasets of the model.                             *)
(***************************************************************************)
UnknownTypes == {"radar", "bubble"}

TypeArgs == GraphTypes \cup UnknownTypes \cup {None}

TitleArgs == {"T", None}

ColumnArgs == {None, "Date", "Close", "Sector", "Bogus"}

GroupArgs == {None, "Sector", "Bogus"}

\* the columns a dataset may lack
Droppable == {"High", "Close"}

RowCounts == (0..MaxRows) \cup {BarWarnCategories, BarWarnCategories + 1}

Datasets == {DataFrame(AllColumns \ drop, n) : drop \in SUBSET Droppable, n \in RowCounts}

(***************************************************************************)
(* The route generate_graph of app.py and the steps of generate.           *)
(***************************************************************************)
Init ==
    /\ df \in Datasets
    /\ pc = "idle"
    /\ req = Absent
    /\ validation = Absent
    /\ fig = Absent
    /\ result = Absent
    /\ response = Absent

\* generate_graph: decode the request, reject a missing graph type or title,
\* otherwise construct GraphGenerator(df) and call generate
generate_graph ==
    /\ pc = "idle"
    /\ \E t \in TypeArgs, title \in TitleArgs, x \in ColumnArgs, y \in ColumnArgs,
          g \in GroupArgs :
         /\ req' = [graph_type |-> t, title |-> title, x_axis |-> x, y_axis |-> y,
                    group_by |-> g]
         /\ IF t = None
            THEN /\ response' = [success |-> FALSE, errors |-> <<"Graph type is required">>]
                 /\ pc' = "responded"
            ELSE IF title = None
            THEN /\ response' = [success |-> FALSE, errors |-> <<"Title is required">>]
                 /\ pc' = "responded"
            ELSE /\ response' = Absent
                 /\ pc' = "validate"
    /\ validation' = Absent
    /\ fig' = Absent
    /\ result' = Absent
    /\ UNCHANGED df

\* generate, line 89: the call of the validator; its KeyError leaves generate
generate_validate ==
    /\ pc = "validate"
    /\ LET v == validate(df, req.graph_type, req.x_axis, req.y_axis, req.group_by)
       IN  IF IsRaised(v)
           THEN /\ result' = v
                /\ validation' = Absent
                /\ pc' = "raised"
           ELSE /\ validation' = v
                /\ result' = Absent
                /\ pc' = "validated"
    /\ UNCHANGED <<df, req, fig, response>>

\* generate, lines 91-96: the early return on an invalid verdict
generate_invalid ==
    /\ pc = "validated"
    /\ ~validation.valid
    /\ result' = invalid_result(validation)
    /\ pc' = "returned"
    /\ UNCHANGED <<df, req, validation, fig, response>>

\* a dispatch that sorts the shared frame in place for a bar chart
generate_dispatch_sorts_in_place ==
    /\ pc = "validated"
    /\ validation.valid
    /\ \E o \in generate_try(df, req, validation) :
         /\ fig' = o.fig
         /\ result' = o.result
    /\ df' = IF req.graph_type = "bar"
             THEN [df EXCEPT !.rows = [i \in 1..len(df) |-> df.rows[len(df) + 1 - i]]]
             ELSE df
    /\ pc' = "returned"
    /\ UNCHANGED <<req, validation, response>>

\* a dispatch that does not wait for a valid verdict before a line chart
generate_dispatch_ignores_verdict ==
    /\ pc = "validated"
    /\ validation.valid \/ req.graph_type = "line"
    /\ \E o \in generate_try(df, req, validation) :
         /\ fig' = o.fig
         /\ result' = o.result
    /\ pc' = "returned"
    /\ UNCHANGED <<df, req, validation, response>>

\* generate, lines 99-145: dispatch, to_html and the return, or the except clause
generate_dispatch ==
    /\ pc = "validated"
    /\ validation.valid
    /\ \E o \in generate_try(df, req, validation) :
         /\ fig' = o.fig
         /\ result' = o.result
    /\ pc' = "returned"
    /\ UNCHANGED <<df, req, validation, response>>

\* generate_graph, line 76: jsonify(result)
generate_graph_return ==
    /\ pc = "returned"
    /\ response' = result
    /\ pc' = "responded"
    /\ UNCHANGED <<df, req, validation, fig, result>>

\* generate_graph, lines 78-82: the route's except clause
generate_graph_except ==
    /\ pc = "raised"
    /\ response' = [success |-> FALSE, errors |-> <<"Server error: " \o result.raised>>]
    /\ pc' = "responded"
    /\ UNCHANGED <<df, req, validation, fig, result>>

\* the request/response cycle ends: what the request created is discarded
request_finished ==
    /\ pc = "responded"
    /\ pc' = "idle"
    /\ req' = Absent
    /\ validation' = Absent
    /\ fig' = Absent
    /\ result' = Absent
    /\ response' = Absent
    /\ UNCHANGED df

Next ==
    \/ generate_graph
    \/ generate_validate
    \/ generate_invalid
    \/ generate_dispatch
    \/ generate_graph_return
    \/ generate_graph_except
    \/ request_finished

Spec == Init /\ [][Next]_vars

(***************************************************************************)
(* generate as one call, applied to the datasets that exercise the         *)
(* aggregating transforms (bar, pie) and the candlestick transform.        *)
(***************************************************************************)
\* GraphGenerator.generate(graph_type, title, x_col, y_col, group_col), whole
generate(r) ==
    /\ req' = r
    /\ LET v == validate(df, r.graph_type, r.x_axis, r.y_axis, r.group_by)
       IN  IF IsRaised(v)
           THEN /\ validation' = Absent
                /\ fig' = Absent
                /\ result' = v
                /\ pc' = "raised"
           ELSE IF ~v.valid
           THEN /\ validation' = v
                /\ fig' = Absent
                /\ result' = invalid_result(v)
                /\ pc' = "returned"
           ELSE /\ validation' = v
                /\ \E o \in generate_try(df, r, v) :
                     /\ fig' = o.fig
                     /\ result' = o.result
                /\ pc' = "returned"
    /\ UNCHANGED <<df, response>>

\* the summed value of the k-th of c categories; category t + 1 ties with t
AggWeight(c, t, inc, k) ==
    LET w(j) == IF inc THEN 10 * j ELSE 10 * (c + 1 - j)
    IN  IF t >= 1 /\ k = t + 1 THEN w(t) ELSE w(k)

\* a frame of c categories met in ascending or descending order, each in one
\* row or (dup) in two rows that add up to its weight
AggFrame(c, t, asc, dup, inc) ==
    LET catAt(i) == IF asc THEN i ELSE c + 1 - i
        pass1 == [i \in 1..c |->
                    [cat |-> catAt(i),
                     val |-> IF dup THEN 1 ELSE AggWeight(c, t, inc, catAt(i))]]
        pass2 == [i \in 1..c |->
                    [cat |-> catAt(i), val |-> AggWeight(c, t, inc, catAt(i)) - 1]]
    IN  [columns |-> {"cat", "val"},
         dtype |-> [col \in {"cat", "val"} |-> dtypeOf(col)],
         rows |-> IF dup THEN pass1 \o pass2 ELSE pass1]

AggFrames ==
    {AggFrame(c, t, asc, dup, inc) :
       c \in 1..MaxGroups, t \in 0..MaxGroups, asc \in BOOLEAN, dup \in BOOLEAN,
       inc \in BOOLEAN}

InitTopN ==
    /\ df \in AggFrames
    /\ pc = "idle"
    /\ req = Absent
    /\ validation = Absent
    /\ fig = Absent
    /\ result = Absent
    /\ response = Absent

generate_bar ==
    /\ pc = "idle"
    /\ generate([graph_type |-> "bar", title |-> "T", x_axis |-> "cat", y_axis |-> "val",
                 group_by |-> None])

generate_pie ==
    /\ pc = "idle"
    /\ generate([graph_type |-> "pie", title |-> "T", x_axis |-> "cat", y_axis |-> "val",
                 group_by |-> None])

NextTopN ==
    \/ generate_bar
    \/ generate_pie

SpecTopN == InitTopN /\ [][NextTopN]_vars

CandleFrames == {DataFrame(AllColumns, n) : n \in 0..CandleMaxRows}

InitCandle ==
    /\ df \in CandleFrames
    /\ pc = "idle"
    /\ req = Absent
    /\ validation = Absent
    /\ fig = Absent
    /\ result = Absent
    /\ response = Absent

generate_candlestick ==
    /\ pc = "idle"
    /\ generate([graph_type |-> "candlestick", title |-> "T", x_axis |-> None,
                 y_axis |-> None, group_by |-> None])

NextCandle == generate_candlestick

SpecCandle == InitCandle /\ [][NextCandle]_vars

(***************************************************************************)
(* The claims.                                                             *)
(***************************************************************************)
Numeric(d, c) == d.dtype[c] \in {"int64", "float64"}

Distinct(d, c) == Cardinality({d.rows[i][c] : i \in 1..Len(d.rows)})

\* the required checks of the per-type table that a request violates
ViolatedChecks(d, r) ==
    LET t == r.graph_type
        x == r.x_axis
        y == r.y_axis
    IN  {chk \in {"x numeric", "y numeric", "rows >= 3", "labels >= 2", "ohlc present"} :
           \/ chk = "y numeric" /\ t \in {"line", "bar", "scatter", "pie", "box", "heatmap"}
                /\ ~Numeric(d, y)
           \/ chk = "x numeric" /\ t \in {"scatter", "histogram"} /\ ~Numeric(d, x)
           \/ chk = "rows >= 3" /\ t = "line" /\ Len(d.rows) < 3
           \/ chk = "labels >= 2" /\ t = "pie" /\ Distinct(d, x) < 2
           \/ chk = "ohlc present" /\ t = "candlestick"
                /\ ~({"Date", "Open", "High", "Low", "Close"} \subseteq d.columns)}

\* the advisory checks of the per-type table that fire for a request
AdvisoryFires(d, r) ==
    LET t == r.graph_type
    IN  \/ t = "bar" /\ Distinct(d, r.x_axis) > 50
        \/ t = "scatter" /\ Len(d.rows) < 5
        \/ t = "pie" /\ Distinct(d, r.x_axis) > 8
        \/ t = "histogram" /\ Len(d.rows) < 10

Validated == pc \in {"validated", "returned", "responded"} /\ validation # Absent

Returned == pc = "returned"

\* C1: for each of the nine chart types, on a dataset that has the columns the
\* request names, validate returns valid = true exactly when no required check
\* of the type is violated; valid is true exactly when errors is empty, whether
\* or not there are warnings.
C1_ValidIffRequiredChecksPass ==
    (Validated /\ req.graph_type \in GraphTypes) =>
        /\ validation.valid <=> (ViolatedChecks(df, req) = {})
        /\ validation.valid <=> (validation.errors = <<>>)

C1_Witness ==
    /\ Validated
    /\ req.graph_type = "pie"
    /\ validation.valid
    /\ validation.warnings # <<>>

\* the columns the chart type of a request requires
RequiredColumns(r) ==
    CASE r.graph_type \in {"line", "bar", "scatter", "pie", "heatmap", "area"} ->
           {r.x_axis, r.y_axis}
      [] r.graph_type = "histogram" -> {r.x_axis}
      [] r.graph_type = "box" -> {r.y_axis}
      [] OTHER -> {}

\* C2: generate never raises: every call returns a dict, and a call that names
\* an absent or unknown column for a role its chart type requires returns
\* success = false with a non-empty errors list.
C2_GenerateNeverRaises ==
    /\ pc # "raised"
    /\ (Returned /\ \E c \in RequiredColumns(req) : c \notin df.columns) =>
         /\ result.success = FALSE
         /\ result.errors # <<>>

\* C3: for a chart type that is none of the nine, generate returns a failure
\* whose errors list is exactly the one "not supported" message naming the
\* type, whatever the x, y and group columns are (present, absent or unknown).
C3_UnsupportedTypeSingleError ==
    (pc \notin {"idle"} /\ req.graph_type \in UnknownTypes /\ req.title # None) =>
        /\ pc # "raised"
        /\ pc \in {"returned", "responded"} =>
             /\ result.success = FALSE
             /\ result.errors = <<"Graph type '" \o req.graph_type \o "' not supported">>
             /\ fig = Absent

C3_Witness ==
    /\ Returned
    /\ req.graph_type \in UnknownTypes
    /\ req.x_axis = "Bogus"
    /\ req.y_axis = None
    /\ req.group_by = "Bogus"
    /\ Len(result.errors) = 1

\* C4: every dict generate returns is a success {success, html, warnings} or a
\* failure {success, errors, warnings}: every failure carries errors and warnings.
C4_ResultShapes ==
    Returned =>
        \/ result.success = TRUE /\ DOMAIN result = {"success", "html", "warnings"}
        \/ result.success = FALSE /\ DOMAIN result = {"success", "errors", "warnings"}

\* the total of values_col over the rows of the group k
RECURSIVE GroupTotal(_, _, _, _, _)
GroupTotal(d, x, y, k, n) ==
    IF n = 0 THEN 0
    ELSE GroupTotal(d, x, y, k, n - 1) + (IF d.rows[n][x] = k THEN d.rows[n][y] ELSE 0)

Groups(d, x) == {d.rows[i][x] : i \in 1..Len(d.rows)}

FirstRow(d, x, k) == CHOOSE i \in 1..Len(d.rows) :
                        d.rows[i][x] = k /\ \A j \in 1..(i - 1) : d.rows[j][x] # k

\* the groups in descending order of total, equal totals in encounter order,
\* cut to the first n
TopNByEncounter(d, x, y, n) ==
    LET total(k) == GroupTotal(d, x, y, k, Len(d.rows))
        before(h, k) == \/ total(h) > total(k)
                        \/ total(h) = total(k) /\ FirstRow(d, x, h) < FirstRow(d, x, k)
        rank(k) == Cardinality({h \in Groups(d, x) : before(h, k)}) + 1
        m == Min(n, Cardinality(Groups(d, x)))
    IN  [i \in 1..m |-> CHOOSE k \in Groups(d, x) : rank(k) = i]

\* the groups a bar or pie figure renders, and their values
Rendered(f) == IF f.kind = "pie" THEN f.labels ELSE f.x

RenderedValues(f) == IF f.kind = "pie" THEN f.values ELSE f.y

Limit(f) == IF f.kind = "pie" THEN 8 ELSE 20

Aggregated == Returned /\ fig # Absent /\ fig.kind \in {"bar", "pie"}

\* C5 as stated: bar renders at most 20 groups and pie at most 8, the groups
\* with the largest summed value in descending order of sum, groups of equal
\* sum in the order the dataset first meets them.
C5_TiesByEncounterOrder ==
    Aggregated =>
        Rendered(fig) = TopNByEncounter(df, req.x_axis, req.y_axis, Limit(fig))

\* C5 as amended: bar renders min(20, groups) and pie min(8, groups) distinct
\* groups, each with its summed value, in non-increasing order of sum, and no
\* group left out has a larger sum than a rendered one; the order among groups
\* of equal sum, and which of them survive the cut, is not fixed.
C5_TopNBySum ==
    Aggregated =>
        LET ks == Rendered(fig)
            vs == RenderedValues(fig)
            all == Groups(df, req.x_axis)
            total(k) == GroupTotal(df, req.x_axis, req.y_axis, k, Len(df.rows))
            shown == {ks[i] : i \in 1..Len(ks)}
        IN  /\ Len(ks) = Min(Limit(fig), Cardinality(all))
            /\ Len(vs) = Len(ks)
            /\ shown \subseteq all
            /\ Cardinality(shown) = Len(ks)
            /\ \A i \in 1..Len(ks) : vs[i] = total(ks[i])
            /\ \A i \in 1..(Len(ks) - 1) : vs[i] >= vs[i + 1]
            /\ \A k \in all \ shown : \A i \in 1..Len(ks) : total(k) <= vs[i]

\* a pie of more than 8 groups where a group left out ties with a rendered one
C5_Witness ==
    /\ Aggregated
    /\ fig.kind = "pie"
    /\ Cardinality(Groups(df, "cat")) > 8
    /\ \E k \in Groups(df, "cat") :
         /\ \A i \in 1..Len(fig.labels) : fig.labels[i] # k
         /\ GroupTotal(df, "cat", "val", k, Len(df.rows)) = fig.values[Len(fig.values)]

\* the failures the except clause of generate builds for a request
CaughtFaults(d, r) ==
    {[success |-> FALSE, errors |-> <<"Error generating graph: " \o o.raised>>] :
       o \in {q \in dispatch(d, r.graph_type, r.title, r.x_axis, r.y_axis, r.group_by) :
                IsRaised(q)}}

\* C6: a request of a supported type that violates no required check and whose
\* transform does not fault succeeds, and its warnings are the validator's:
\* present exactly when the advisory check of its type fires (pie: more than 8
\* distinct labels, not 8).
C6_WarningsNeverBlockSuccess ==
    (Returned /\ req.graph_type \in GraphTypes /\ ViolatedChecks(df, req) = {}
       /\ result \notin CaughtFaults(df, req)) =>
        /\ result.success = TRUE
        /\ "warnings" \in DOMAIN result
        /\ result.warnings = validation.warnings
        /\ (result.warnings # <<>>) <=> AdvisoryFires(df, req)

C6_Witness ==
    /\ Returned
    /\ req.graph_type = "pie"
    /\ Distinct(df, req.x_axis) > 8
    /\ result.success = TRUE
    /\ result.warnings # <<>>

\* C7: on a dataset of n rows the candlestick figure has min(100, n) candles,
\* the last min(100, n) rows of the dataset, one candle per row in dataset order.
C7_CandlestickLastRows ==
    (Returned /\ req.graph_type = "candlestick" /\ ViolatedChecks(df, req) = {}) =>
        LET n == Len(df.rows)
            m == IF n < 100 THEN n ELSE 100
        IN  /\ fig # Absent
            /\ Len(fig.x) = m
            /\ \A i \in 1..m :
                 LET row == df.rows[n - m + i]
                 IN  /\ fig.x[i] = row["Date"]
                     /\ fig.open[i] = row["Open"]
                     /\ fig.high[i] = row["High"]
                     /\ fig.low[i] = row["Low"]
                     /\ fig.close[i] = row["Close"]
            /\ Len(fig.open) = m /\ Len(fig.high) = m /\ Len(fig.low) = m
            /\ Len(fig.close) = m

C7_Witness ==
    /\ Returned
    /\ req.graph_type = "candlestick"
    /\ Len(df.rows) > 100
    /\ fig # Absent
    /\ fig.x[1] = Len(df.rows) - 99

C9_ValidateBeforeDispatch ==
    /\ pc \in {"idle", "validate", "raised"} => fig = Absent
    /\ fig # Absent => validation # Absent /\ validation.valid
    /\ (validation # Absent /\ ~validation.valid) =>
         /\ fig = Absent
         /\ pc \in {"returned", "responded"} =>
              result = [success |-> FALSE, errors |-> validation.errors,
                        warnings |-> validation.warnings]

C9_Witness ==
    /\ Returned
    /\ validation # Absent
    /\ ~validation.valid
    /\ validation.warnings # <<>>
    /\ result.success = FALSE

\* C10: validate reports every violated required check, one error each: the
\* number of errors is the number of required checks the request violates.
C10_OneErrorPerViolatedCheck ==
    (Validated /\ req.graph_type \in GraphTypes) =>
        Len(validation.errors) = Cardinality(ViolatedChecks(df, req))

C10_Witness ==
    /\ Validated
    /\ req.graph_type \in {"line", "scatter", "pie"}
    /\ Len(validation.errors) = 2

====
